---- MODULE Spec2Model ----
(***************************************************************************)
(* Model of create-task.py: the page-interaction pipeline of main(), the   *)
(* record extractor and the output writer.  Text is modelled as sequences  *)
(* of one-character strings, so that splitting, concatenation and the      *)
(* filename arithmetic are computed, not assumed.                          *)
(***************************************************************************)
EXTENDS Naturals, Sequences, FiniteSets, TLC

VARIABLES pc, args, fs, session, quits, steps, prompts, reads, search_query,
          typed, attempts, soup, calls, df, output_filename, outputs, exc,
          opsAfterQuit

vars == <<pc, args, fs, session, quits, steps, prompts, reads, search_query,
          typed, attempts, soup, calls, df, output_filename, outputs, exc,
          opsAfterQuit>>

-----------------------------------------------------------------------------
(* Bounds of the model. *)

\* longest output name / query drawn as an input
MaxNameLen == 3
\* how many names of the collision chain may already exist on disk
MaxChain == 2
\* most nodes a selector matches in a page snapshot
MaxRows == 3

-----------------------------------------------------------------------------
(* Optional values: Python's None, a missing attribute, a NaN cell. *)

None == [some |-> FALSE, v |-> <<>>]
Some(x) == [some |-> TRUE, v |-> x]
NaN == None

\* Python truthiness of an optional string: None and "" are falsy.
Truthy(o) == o.some /\ o.v # <<>>

-----------------------------------------------------------------------------
(* Decimal digits, int() and str().  A character outside ASCII is written
   by its code point, "U+0663".  In a str pattern \d is the Unicode category
   Nd, and int() reads every such digit: the category is made of runs of ten
   characters, zero to nine, listed here (Unicode 14.0). *)

DigitBlocks ==
  <<<<"0", "1", "2", "3", "4", "5", "6", "7", "8", "9">>,
     <<"U+0660", "U+0661", "U+0662", "U+0663", "U+0664", "U+0665", "U+0666", "U+0667", "U+0668", "U+0669">>,
     <<"U+06F0", "U+06F1", "U+06F2", "U+06F3", "U+06F4", "U+06F5", "U+06F6", "U+06F7", "U+06F8", "U+06F9">>,
     <<"U+07C0", "U+07C1", "U+07C2", "U+07C3", "U+07C4", "U+07C5", "U+07C6", "U+07C7", "U+07C8", "U+07C9">>,
     <<"U+0966", "U+0967", "U+0968", "U+0969", "U+096A", "U+096B", "U+096C", "U+096D", "U+096E", "U+096F">>,
     <<"U+09E6", "U+09E7", "U+09E8", "U+09E9", "U+09EA", "U+09EB", "U+09EC", "U+09ED", "U+09EE", "U+09EF">>,
     <<"U+0A66", "U+0A67", "U+0A68", "U+0A69", "U+0A6A", "U+0A6B", "U+0A6C", "U+0A6D", "U+0A6E", "U+0A6F">>,
     <<"U+0AE6", "U+0AE7", "U+0AE8", "U+0AE9", "U+0AEA", "U+0AEB", "U+0AEC", "U+0AED", "U+0AEE", "U+0AEF">>,
     <<"U+0B66", "U+0B67", "U+0B68", "U+0B69", "U+0B6A", "U+0B6B", "U+0B6C", "U+0B6D", "U+0B6E", "U+0B6F">>,
     <<"U+0BE6", "U+0BE7", "U+0BE8", "U+0BE9", "U+0BEA", "U+0BEB", "U+0BEC", "U+0BED", "U+0BEE", "U+0BEF">>,
     <<"U+0C66", "U+0C67", "U+0C68", "U+0C69", "U+0C6A", "U+0C6B", "U+0C6C", "U+0C6D", "U+0C6E", "U+0C6F">>,
     <<"U+0CE6", "U+0CE7", "U+0CE8", "U+0CE9", "U+0CEA", "U+0CEB", "U+0CEC", "U+0CED", "U+0CEE", "U+0CEF">>,
     <<"U+0D66", "U+0D67", "U+0D68", "U+0D69", "U+0D6A", "U+0D6B", "U+0D6C", "U+0D6D", "U+0D6E", "U+0D6F">>,
     <<"U+0DE6", "U+0DE7", "U+0DE8", "U+0DE9", "U+0DEA", "U+0DEB", "U+0DEC", "U+0DED", "U+0DEE", "U+0DEF">>,
     <<"U+0E50", "U+0E51", "U+0E52", "U+0E53", "U+0E54", "U+0E55", "U+0E56", "U+0E57", "U+0E58", "U+0E59">>,
     <<"U+0ED0", "U+0ED1", "U+0ED2", "U+0ED3", "U+0ED4", "U+0ED5", "U+0ED6", "U+0ED7", "U+0ED8", "U+0ED9">>,
     <<"U+0F20", "U+0F21", "U+0F22", "U+0F23", "U+0F24", "U+0F25", "U+0F26", "U+0F27", "U+0F28", "U+0F29">>,
     <<"U+1040", "U+1041", "U+1042", "U+1043", "U+1044", "U+1045", "U+1046", "U+1047", "U+1048", "U+1049">>,
     <<"U+1090", "U+1091", "U+1092", "U+1093", "U+1094", "U+1095", "U+1096", "U+1097", "U+1098", "U+1099">>,
     <<"U+17E0", "U+17E1", "U+17E2", "U+17E3", "U+17E4", "U+17E5", "U+17E6", "U+17E7", "U+17E8", "U+17E9">>,
     <<"U+1810", "U+1811", "U+1812", "U+1813", "U+1814", "U+1815", "U+1816", "U+1817", "U+1818", "U+1819">>,
     <<"U+1946", "U+1947", "U+1948", "U+1949", "U+194A", "U+194B", "U+194C", "U+194D", "U+194E", "U+194F">>,
     <<"U+19D0", "U+19D1", "U+19D2", "U+19D3", "U+19D4", "U+19D5", "U+19D6", "U+19D7", "U+19D8", "U+19D9">>,
     <<"U+1A80", "U+1A81", "U+1A82", "U+1A83", "U+1A84", "U+1A85", "U+1A86", "U+1A87", "U+1A88", "U+1A89">>,
     <<"U+1A90", "U+1A91", "U+1A92", "U+1A93", "U+1A94", "U+1A95", "U+1A96", "U+1A97", "U+1A98", "U+1A99">>,
     <<"U+1B50", "U+1B51", "U+1B52", "U+1B53", "U+1B54", "U+1B55", "U+1B56", "U+1B57", "U+1B58", "U+1B59">>,
     <<"U+1BB0", "U+1BB1", "U+1BB2", "U+1BB3", "U+1BB4", "U+1BB5", "U+1BB6", "U+1BB7", "U+1BB8", "U+1BB9">>,
     <<"U+1C40", "U+1C41", "U+1C42", "U+1C43", "U+1C44", "U+1C45", "U+1C46", "U+1C47", "U+1C48", "U+1C49">>,
     <<"U+1C50", "U+1C51", "U+1C52", "U+1C53", "U+1C54", "U+1C55", "U+1C56", "U+1C57", "U+1C58", "U+1C59">>,
     <<"U+A620", "U+A621", "U+A622", "U+A623", "U+A624", "U+A625", "U+A626", "U+A627", "U+A628", "U+A629">>,
     <<"U+A8D0", "U+A8D1", "U+A8D2", "U+A8D3", "U+A8D4", "U+A8D5", "U+A8D6", "U+A8D7", "U+A8D8", "U+A8D9">>,
     <<"U+A900", "U+A901", "U+A902", "U+A903", "U+A904", "U+A905", "U+A906", "U+A907", "U+A908", "U+A909">>,
     <<"U+A9D0", "U+A9D1", "U+A9D2", "U+A9D3", "U+A9D4", "U+A9D5", "U+A9D6", "U+A9D7", "U+A9D8", "U+A9D9">>,
     <<"U+A9F0", "U+A9F1", "U+A9F2", "U+A9F3", "U+A9F4", "U+A9F5", "U+A9F6", "U+A9F7", "U+A9F8", "U+A9F9">>,
     <<"U+AA50", "U+AA51", "U+AA52", "U+AA53", "U+AA54", "U+AA55", "U+AA56", "U+AA57", "U+AA58", "U+AA59">>,
     <<"U+ABF0", "U+ABF1", "U+ABF2", "U+ABF3", "U+ABF4", "U+ABF5", "U+ABF6", "U+ABF7", "U+ABF8", "U+ABF9">>,
     <<"U+FF10", "U+FF11", "U+FF12", "U+FF13", "U+FF14", "U+FF15", "U+FF16", "U+FF17", "U+FF18", "U+FF19">>,
     <<"U+104A0", "U+104A1", "U+104A2", "U+104A3", "U+104A4", "U+104A5", "U+104A6", "U+104A7", "U+104A8", "U+104A9">>,
     <<"U+10D30", "U+10D31", "U+10D32", "U+10D33", "U+10D34", "U+10D35", "U+10D36", "U+10D37", "U+10D38", "U+10D39">>,
     <<"U+11066", "U+11067", "U+11068", "U+11069", "U+1106A", "U+1106B", "U+1106C", "U+1106D", "U+1106E", "U+1106F">>,
     <<"U+110F0", "U+110F1", "U+110F2", "U+110F3", "U+110F4", "U+110F5", "U+110F6", "U+110F7", "U+110F8", "U+110F9">>,
     <<"U+11136", "U+11137", "U+11138", "U+11139", "U+1113A", "U+1113B", "U+1113C", "U+1113D", "U+1113E", "U+1113F">>,
     <<"U+111D0", "U+111D1", "U+111D2", "U+111D3", "U+111D4", "U+111D5", "U+111D6", "U+111D7", "U+111D8", "U+111D9">>,
     <<"U+112F0", "U+112F1", "U+112F2", "U+112F3", "U+112F4", "U+112F5", "U+112F6", "U+112F7", "U+112F8", "U+112F9">>,
     <<"U+11450", "U+11451", "U+11452", "U+11453", "U+11454", "U+11455", "U+11456", "U+11457", "U+11458", "U+11459">>,
     <<"U+114D0", "U+114D1", "U+114D2", "U+114D3", "U+114D4", "U+114D5", "U+114D6", "U+114D7", "U+114D8", "U+114D9">>,
     <<"U+11650", "U+11651", "U+11652", "U+11653", "U+11654", "U+11655", "U+11656", "U+11657", "U+11658", "U+11659">>,
     <<"U+116C0", "U+116C1", "U+116C2", "U+116C3", "U+116C4", "U+116C5", "U+116C6", "U+116C7", "U+116C8", "U+116C9">>,
     <<"U+11730", "U+11731", "U+11732", "U+11733", "U+11734", "U+11735", "U+11736", "U+11737", "U+11738", "U+11739">>,
     <<"U+118E0", "U+118E1", "U+118E2", "U+118E3", "U+118E4", "U+118E5", "U+118E6", "U+118E7", "U+118E8", "U+118E9">>,
     <<"U+11950", "U+11951", "U+11952", "U+11953", "U+11954", "U+11955", "U+11956", "U+11957", "U+11958", "U+11959">>,
     <<"U+11C50", "U+11C51", "U+11C52", "U+11C53", "U+11C54", "U+11C55", "U+11C56", "U+11C57", "U+11C58", "U+11C59">>,
     <<"U+11D50", "U+11D51", "U+11D52", "U+11D53", "U+11D54", "U+11D55", "U+11D56", "U+11D57", "U+11D58", "U+11D59">>,
     <<"U+11DA0", "U+11DA1", "U+11DA2", "U+11DA3", "U+11DA4", "U+11DA5", "U+11DA6", "U+11DA7", "U+11DA8", "U+11DA9">>,
     <<"U+16A60", "U+16A61", "U+16A62", "U+16A63", "U+16A64", "U+16A65", "U+16A66", "U+16A67", "U+16A68", "U+16A69">>,
     <<"U+16AC0", "U+16AC1", "U+16AC2", "U+16AC3", "U+16AC4", "U+16AC5", "U+16AC6", "U+16AC7", "U+16AC8", "U+16AC9">>,
     <<"U+16B50", "U+16B51", "U+16B52", "U+16B53", "U+16B54", "U+16B55", "U+16B56", "U+16B57", "U+16B58", "U+16B59">>,
     <<"U+1D7CE", "U+1D7CF", "U+1D7D0", "U+1D7D1", "U+1D7D2", "U+1D7D3", "U+1D7D4", "U+1D7D5", "U+1D7D6", "U+1D7D7">>,
     <<"U+1D7D8", "U+1D7D9", "U+1D7DA", "U+1D7DB", "U+1D7DC", "U+1D7DD", "U+1D7DE", "U+1D7DF", "U+1D7E0", "U+1D7E1">>,
     <<"U+1D7E2", "U+1D7E3", "U+1D7E4", "U+1D7E5", "U+1D7E6", "U+1D7E7", "U+1D7E8", "U+1D7E9", "U+1D7EA", "U+1D7EB">>,
     <<"U+1D7EC", "U+1D7ED", "U+1D7EE", "U+1D7EF", "U+1D7F0", "U+1D7F1", "U+1D7F2", "U+1D7F3", "U+1D7F4", "U+1D7F5">>,
     <<"U+1D7F6", "U+1D7F7", "U+1D7F8", "U+1D7F9", "U+1D7FA", "U+1D7FB", "U+1D7FC", "U+1D7FD", "U+1D7FE", "U+1D7FF">>,
     <<"U+1E140", "U+1E141", "U+1E142", "U+1E143", "U+1E144", "U+1E145", "U+1E146", "U+1E147", "U+1E148", "U+1E149">>,
     <<"U+1E2F0", "U+1E2F1", "U+1E2F2", "U+1E2F3", "U+1E2F4", "U+1E2F5", "U+1E2F6", "U+1E2F7", "U+1E2F8", "U+1E2F9">>,
     <<"U+1E950", "U+1E951", "U+1E952", "U+1E953", "U+1E954", "U+1E955", "U+1E956", "U+1E957", "U+1E958", "U+1E959">>,
     <<"U+1FBF0", "U+1FBF1", "U+1FBF2", "U+1FBF3", "U+1FBF4", "U+1FBF5", "U+1FBF6", "U+1FBF7", "U+1FBF8", "U+1FBF9">>>>

\* what str() and f-strings write
Digits == DigitBlocks[1]
DigitSet == {DigitBlocks[b][i] : b \in 1..Len(DigitBlocks), i \in 1..10}
IsDigit(c) == c \in DigitSet
DigitVal(c) == CHOOSE d \in 0..9 : \E b \in 1..Len(DigitBlocks) : DigitBlocks[b][d + 1] = c
DigitChar(d) == Digits[d + 1]

RECURSIVE StrToNat(_)
StrToNat(s) ==
    IF s = <<>> THEN 0
    ELSE 10 * StrToNat(SubSeq(s, 1, Len(s) - 1)) + DigitVal(s[Len(s)])

RECURSIVE NatToStr(_)
NatToStr(n) ==
    IF n < 10 THEN <<DigitChar(n)>>
    ELSE NatToStr(n \div 10) \o <<DigitChar(n % 10)>>

SetMax(S) == CHOOSE m \in S : \A x \in S : x <= m
SetMin(S) == CHOOSE m \in S : \A x \in S : m <= x

\* All sequences over S of length at most n.
RECURSIVE SeqsUpTo(_, _)
SeqsUpTo(S, n) ==
    IF n = 0 THEN {<<>>}
    ELSE LET shorter == SeqsUpTo(S, n - 1)
         IN  shorter \cup {Append(s, c) : s \in {t \in shorter : Len(t) = n - 1}, c \in S}

-----------------------------------------------------------------------------
(* generate_unique_filename and the three writers' file names. *)

\* os.path.splitext: the extension starts at the last dot, unless that dot
\* is preceded only by dots (a leading-dot name has no extension).
splitext(p) ==
    LET dots == {i \in 1..Len(p) : p[i] = "."}
        seps == {i \in 1..Len(p) : p[i] = "/"}
        sepIndex == IF seps = {} THEN 0 ELSE SetMax(seps)
        dotIndex == IF dots = {} THEN 0 ELSE SetMax(dots)
    IN  IF dotIndex > sepIndex
           /\ \E i \in (sepIndex + 1)..(dotIndex - 1) : p[i] # "."
        THEN [root |-> SubSeq(p, 1, dotIndex - 1), ext |-> SubSeq(p, dotIndex, Len(p))]
        ELSE [root |-> p, ext |-> <<>>]

\* $ matches at the end of the string and also just before a newline that
\* ends it: what the tail of the pattern has to cover.
BeforeDollar(r) ==
    IF r # <<>> /\ r[Len(r)] = "\n" THEN SubSeq(r, 1, Len(r) - 1) ELSE r

\* The tail _?(\d+)$ of the pattern: an optional underscore, then digits only.
TailDigits(r) ==
    IF BeforeDollar(r) # <<>> /\ BeforeDollar(r)[1] = "_"
    THEN Tail(BeforeDollar(r)) ELSE BeforeDollar(r)
TailMatches(r) ==
    Len(TailDigits(r)) >= 1 /\ \A i \in 1..Len(TailDigits(r)) : IsDigit(TailDigits(r)[i])

\* Where group 1 may end so that the rest matches _?(\d+)$; the dot of (.*)
\* matches any character but a newline.
MatchSplits(base) ==
    {k \in 0..Len(base) : /\ \A i \in 1..k : base[i] # "\n"
                          /\ TailMatches(SubSeq(base, k + 1, Len(base)))}

\* A lazy (.*?) would take the shortest group 1.
re_match_lazy(base) ==
    IF MatchSplits(base) = {} THEN [matched |-> FALSE, g1 |-> <<>>, g2 |-> <<>>]
    ELSE LET k == SetMin(MatchSplits(base))
         IN  [matched |-> TRUE, g1 |-> SubSeq(base, 1, k),
              g2 |-> TailDigits(SubSeq(base, k + 1, Len(base)))]

\* re.match(r"^(.*)_?(\d+)$", base): (.*) is greedy, so group 1 is the longest
\* prefix that leaves a match for the tail.
re_match(base) ==
    IF MatchSplits(base) = {} THEN [matched |-> FALSE, g1 |-> <<>>, g2 |-> <<>>]
    ELSE LET k == SetMax(MatchSplits(base))
         IN  [matched |-> TRUE, g1 |-> SubSeq(base, 1, k),
              g2 |-> TailDigits(SubSeq(base, k + 1, Len(base)))]

\* One invocation's candidate name (lines 121-128).
new_filename(filename) ==
    LET sp == splitext(filename)
        m  == re_match(sp.root)
    IN  IF m.matched
        THEN m.g1 \o <<"_">> \o NatToStr(StrToNat(m.g2) + 1) \o sp.ext
        ELSE sp.root \o <<"_", "1">> \o sp.ext

\* os.path.exists over the modelled directory.
path_exists(name, files) == name \in files

RECURSIVE generate_unique_filename(_, _)
generate_unique_filename(filename, files) ==
    IF path_exists(new_filename(filename), files)
    THEN generate_unique_filename(new_filename(filename), files)
    ELSE new_filename(filename)

JsonExt == <<".", "j", "s", "o", "n">>
CsvExt  == <<".", "c", "s", "v">>
YamlExt == <<".", "y", "a", "m", "l">>
FormatExt(fmt) ==
    CASE fmt = "json" -> JsonExt
      [] fmt = "csv"  -> CsvExt
      [] fmt = "yaml" -> YamlExt
      [] OTHER        -> <<>>

\* A writer that looked at the csv flag first.
save_output_to_file_csv_first(a) ==
    IF a.csv THEN "csv"
    ELSE IF a.json THEN "json"
    ELSE IF a.yaml THEN "yaml"
    ELSE "print"

\* save_output_to_file: which single output action runs.
save_output_to_file(a) ==
    IF a.json THEN "json"
    ELSE IF a.csv THEN "csv"
    ELSE IF a.yaml THEN "yaml"
    ELSE "print"

\* str.replace(" ", "_")
replace_spaces(s) == [i \in 1..Len(s) |-> IF s[i] = " " THEN "_" ELSE s[i]]

\* The base name main() hands to generate_unique_filename (line 533).
output_base(a, query) == IF Truthy(a.output) THEN a.output.v ELSE replace_spaces(query)

-----------------------------------------------------------------------------
(* The record extractor: six selectors over a page snapshot. *)

ColumnNames == <<"Posted Time", "Title", "Designer", "Size", "Price", "Listing Link">>
ColumnSet == {ColumnNames[i] : i \in 1..Len(ColumnNames)}

Origin == <<"h", "t", "t", "p", "s", ":", "/", "/", "g", "r", "a", "i", "l", "e", "d",
            ".", "c", "o", "m">>
\* "\xa0ago"; the no-break space is written "nbsp"
Marker == <<"nbsp", "a", "g", "o">>

\* Positions at which sep occurs in s.
Occurrences(s, sep) ==
    {i \in 1..(Len(s) + 1 - Len(sep)) : SubSeq(s, i, i + Len(sep) - 1) = sep}

\* s.split(sep)[0]: what precedes the first occurrence of sep, or all of s.
split_first(s, sep) ==
    IF Occurrences(s, sep) = {} THEN s
    ELSE SubSeq(s, 1, SetMin(Occurrences(s, sep)) - 1)

Reverse(s) == [i \in 1..Len(s) |-> s[Len(s) + 1 - i]]

Returned(vals) == [err |-> "none", vals |-> vals]
Raised(e) == [err |-> e, vals |-> <<>>]

extract_item_post_times(page) ==
    Returned([i \in 1..Len(page["Posted Time"]) |->
                  Some(split_first(page["Posted Time"][i].text, Marker))])

\* An extractor that walked the matches backwards.
extract_item_titles_reversed(page) ==
    Returned(Reverse([i \in 1..Len(page["Title"]) |-> Some(page["Title"][i].text)]))

extract_item_titles(page) ==
    Returned([i \in 1..Len(page["Title"]) |-> Some(page["Title"][i].text)])

extract_item_designers(page) ==
    Returned([i \in 1..Len(page["Designer"]) |-> Some(page["Designer"][i].text)])

extract_item_sizes(page) ==
    Returned([i \in 1..Len(page["Size"]) |-> Some(page["Size"][i].text)])

extract_item_prices(page) ==
    Returned([i \in 1..Len(page["Price"]) |-> Some(page["Price"][i].text)])

\* "https://grailed.com" + listing_link.get("href"): get() gives None for a
\* node without the attribute, and str + None raises TypeError.
extract_item_listing_link(page) ==
    IF \E i \in 1..Len(page["Listing Link"]) : ~page["Listing Link"][i].href.some
    THEN Raised("TypeError")
    ELSE Returned([i \in 1..Len(page["Listing Link"]) |->
                       Some(Origin \o page["Listing Link"][i].href.v)])

\* data_extraction_functions (lines 521-528)
data_extraction_function(col, page) ==
    CASE col = "Posted Time"  -> extract_item_post_times(page)
      [] col = "Title"        -> extract_item_titles(page)
      [] col = "Designer"     -> extract_item_designers(page)
      [] col = "Size"         -> extract_item_sizes(page)
      [] col = "Price"        -> extract_item_prices(page)
      [] col = "Listing Link" -> extract_item_listing_link(page)

\* pd.DataFrame(columns=keys): the six columns, no rows.
EmptyFrame == [n |-> 0, cols |-> [c \in ColumnSet |-> <<>>]]

NaNs(n) == [i \in 1..n |-> NaN]

\* A column assignment that filled the short side with NaN instead of raising.
frame_setitem_padding(frame, col, values) ==
    LET n == IF Len(values) > frame.n THEN Len(values) ELSE frame.n
        pad(s) == s \o NaNs(n - Len(s))
    IN  [err |-> "none",
         frame |-> [n |-> n,
                    cols |-> [c \in ColumnSet |->
                                 IF c = col THEN pad(values) ELSE pad(frame.cols[c])]]]

\* df[col] = values for a list: a frame without rows takes its index from a
\* non-empty list (every column is reindexed and NaN-filled); otherwise the
\* list must be as long as the index, or pandas raises ValueError.
frame_setitem(frame, col, values) ==
    IF frame.n = 0 /\ Len(values) > 0
    THEN [err |-> "none",
          frame |-> [n |-> Len(values),
                     cols |-> [c \in ColumnSet |->
                                  IF c = col THEN values ELSE NaNs(Len(values))]]]
    ELSE IF Len(values) # frame.n
    THEN [err |-> "ValueError", frame |-> frame]
    ELSE [err |-> "none",
          frame |-> [frame EXCEPT !.cols[col] = values]]

NoCalls == [c \in ColumnSet |-> 0]

\* The loop of lines 498-499, from column k on.
RECURSIVE assemble(_, _, _, _)
assemble(page, frame, called, k) ==
    IF k > Len(ColumnNames) THEN [err |-> "none", df |-> frame, calls |-> called]
    ELSE LET col  == ColumnNames[k]
             got  == data_extraction_function(col, page)
             cnt  == [called EXCEPT ![col] = @ + 1]
             set  == frame_setitem(frame, col, got.vals)
         IN  IF got.err # "none" THEN [err |-> got.err, df |-> frame, calls |-> cnt]
             ELSE IF set.err # "none" THEN [err |-> set.err, df |-> frame, calls |-> cnt]
             ELSE assemble(page, set.frame, cnt, k + 1)

extract_data_to_dataframe(page) == assemble(page, EmptyFrame, NoCalls, 1)

\* df.to_dict(orient="records")
to_records(frame) == [i \in 1..frame.n |-> [c \in ColumnSet |-> frame.cols[c][i]]]

(* Page snapshots.  The i-th match of a selector carries text that names its
   column and position, so that any reordering shows. *)
ColumnTag(col) ==
    CASE col = "Posted Time"  -> "p"
      [] col = "Title"        -> "t"
      [] col = "Designer"     -> "d"
      [] col = "Size"         -> "s"
      [] col = "Price"        -> "$"
      [] col = "Listing Link" -> "l"

TimeSuffixes == {<<>>, Marker, Marker \o <<"x">> \o Marker}

Node(col, i, suffix, missing) ==
    [text |-> IF col = "Posted Time" THEN <<DigitChar(i), "d">> \o suffix
              ELSE <<ColumnTag(col), DigitChar(i)>>,
     href |-> IF col = "Listing Link" /\ i # missing
              THEN Some(<<"/", DigitChar(i)>>) ELSE None]

\* counts: matches per selector; suffix: what follows the age in every
\* posted-time node; missing: the link node without href (0: none).
Page(counts, suffix, missing) ==
    [c \in ColumnSet |-> [i \in 1..counts[c] |-> Node(c, i, suffix, missing)]]

Pages ==
    {Page(counts, suffix, missing) :
        counts \in [ColumnSet -> 0..MaxRows],
        suffix \in TimeSuffixes,
        missing \in 0..1}

Uniform(n) == [c \in ColumnSet |-> n]
\* The snapshots the whole-run specification draws from.
SamplePages ==
    {Page(Uniform(2), Marker, 0),
     Page(Uniform(0), <<>>, 0),
     Page([Uniform(2) EXCEPT !["Price"] = 1], Marker, 0),
     Page([Uniform(2) EXCEPT !["Posted Time"] = 0], <<>>, 0),
     Page(Uniform(1), Marker, 1)}

-----------------------------------------------------------------------------
(* The run of main(): exceptions and the functions that swallow them. *)

Timeout == "TimeoutException"
\* the exceptions named by the handler of get_to_search_bar_to_search
SearchBarCaught ==
    {"NoSuchElementException", "StaleElementReferenceException", "TimeoutException"}

\* range(3), the attempts of the dismissal loop
DismissAttempts == 3

Step(op, out) == [op |-> op, out |-> out]
Last == steps[Len(steps)]

\* The first exception raised by a sequence of blocking calls, or "ok".
RECURSIVE FirstRaised(_)
FirstRaised(outs) ==
    IF outs = <<>> THEN "ok"
    ELSE IF Head(outs) # "ok" THEN Head(outs)
    ELSE FirstRaised(Tail(outs))

\* The calls actually issued: all up to and including the first that raises.
RECURSIVE Issued(_, _)
Issued(ops, outs) ==
    IF ops = <<>> THEN <<>>
    ELSE IF Head(outs) # "ok" THEN <<Step(Head(ops), Head(outs))>>
    ELSE <<Step(Head(ops), "ok")>> \o Issued(Tail(ops), Tail(outs))

\* accept_cookies without its except clause.
accept_cookies_uncaught(wait, click) == FirstRaised(<<wait, click>>)

\* accept_cookies: what escapes it ("ok": it returned).
accept_cookies(wait, click) ==
    IF FirstRaised(<<wait, click>>) = Timeout THEN "ok"
    ELSE FirstRaised(<<wait, click>>)

\* dismiss_login_popup: what escapes it; a timeout of either wait is printed.
dismiss_login_popup(modal, escape, overlay) ==
    IF FirstRaised(<<modal, escape, overlay>>) = Timeout THEN "ok"
    ELSE FirstRaised(<<modal, escape, overlay>>)

\* What one attempt amounted to.
AttemptKind(modal, escape, overlay) ==
    IF modal = Timeout THEN "modal_absent"
    ELSE IF FirstRaised(<<modal, escape, overlay>>) = "ok" THEN "dismissed"
    ELSE IF modal = "ok" /\ escape = "ok" /\ overlay = Timeout THEN "overlay_timeout"
    ELSE "error"

\* wait_until_class_count_exceeds: what escapes it.
wait_until_class_count_exceeds(wait) == IF wait = Timeout THEN "ok" ELSE wait

\* The try of get_to_search_bar_to_search around a step that let r escape:
\* a listed exception is printed and the driver quit, then the function
\* returns to main; anything else propagates to main's finally.
search_bar_try(r, next) ==
    IF r = "ok" THEN [pc |-> next, quit |-> FALSE, exc |-> "none"]
    ELSE IF r \in SearchBarCaught THEN [pc |-> "get_query", quit |-> TRUE, exc |-> "none"]
    ELSE [pc |-> "finally", quit |-> FALSE, exc |-> r]

\* input(): a line, or EOFError when standard input is closed (None).
PromptReads == {<<>>, <<"r">>}
PromptOutcomes == {Some(s) : s \in PromptReads} \cup {None}

\* search_for_query that trusted its argument and never asked again.
needs_second_prompt_never(query) == FALSE

\* search_for_query asks again when handed a falsy query (line 449).
needs_second_prompt(query) == query = <<>>

-----------------------------------------------------------------------------
(* Actions of the run. *)

\* lines 505-508: the driver is created outside the try.
GetChromeDriver ==
    /\ pc = "get_chrome_driver"
    /\ \E out \in {"ok", "WebDriverException"} :
          /\ steps' = Append(steps, Step("get_chrome_driver", out))
          /\ session' = IF out = "ok" THEN "open" ELSE "none"
          /\ pc' = IF out = "ok" THEN "navigate" ELSE "done"
          /\ exc' = IF out = "ok" THEN "none" ELSE out
    /\ UNCHANGED <<args, fs, quits, prompts, reads, search_query, typed, attempts,
                   soup, calls, df, output_filename, outputs, opsAfterQuit>>

\* navigate_to_search_page, line 434: driver.get(base_url)
DriverGet ==
    /\ pc = "navigate"
    /\ \E out \in {"ok", "WebDriverException"} :
          /\ steps' = Append(steps, Step("driver_get", out))
          /\ pc' = IF out = "ok" THEN "accept_cookies" ELSE "finally"
          /\ exc' = IF out = "ok" THEN "none" ELSE out
    /\ UNCHANGED <<args, fs, session, quits, prompts, reads, search_query, typed,
                   attempts, soup, calls, df, output_filename, outputs, opsAfterQuit>>

\* line 211 with accept_cookies (181-197), inside the try of line 210
AcceptCookies ==
    /\ pc = "accept_cookies"
    /\ \E wait \in {"ok", Timeout, "WebDriverException"},
          click \in {"ok", "StaleElementReferenceException", "WebDriverException"} :
          LET t == search_bar_try(accept_cookies(wait, click), "focus_search")
          IN  /\ steps' = steps \o Issued(<<"cookie_wait", "cookie_click">>, <<wait, click>>)
              /\ pc' = t.pc
              /\ exc' = t.exc
              /\ quits' = IF t.quit THEN quits + 1 ELSE quits
              /\ session' = IF t.quit THEN "closed" ELSE session
    /\ UNCHANGED <<args, fs, prompts, reads, search_query, typed, attempts, soup,
                   calls, df, output_filename, outputs, opsAfterQuit>>

\* lines 213-216: wait for the search input, click it
FocusSearchInput ==
    /\ pc = "focus_search"
    /\ \E wait \in {"ok", Timeout, "WebDriverException"},
          click \in {"ok", "StaleElementReferenceException", "NoSuchElementException",
                     "ElementClickInterceptedException"} :
          LET t == search_bar_try(FirstRaised(<<wait, click>>), "dismiss_loop")
          IN  /\ steps' = steps \o Issued(<<"search_wait", "search_click">>, <<wait, click>>)
              /\ pc' = t.pc
              /\ exc' = t.exc
              /\ quits' = IF t.quit THEN quits + 1 ELSE quits
              /\ session' = IF t.quit THEN "closed" ELSE session
    /\ UNCHANGED <<args, fs, prompts, reads, search_query, typed, attempts, soup,
                   calls, df, output_filename, outputs, opsAfterQuit>>

\* lines 218-223: one iteration of the loop, with dismiss_login_popup (29-66)
DismissAttempt ==
    /\ pc = "dismiss_loop"
    /\ Len(attempts) < DismissAttempts
    /\ \E modal \in {"ok", Timeout},
          escape \in {"ok", "WebDriverException"},
          overlay \in {"ok", Timeout} :
          LET r == dismiss_login_popup(modal, escape, overlay)
              \* except TimeoutException: pass -- on to the next iteration, or
              \* out of the loop after the last one
              again == r = Timeout /\ Len(attempts) + 1 < DismissAttempts
              t == IF r = Timeout THEN search_bar_try("ok", "get_query")
                   ELSE search_bar_try(r, "get_query")
          IN  /\ steps' = steps \o Issued(<<"modal_wait", "escape_key", "overlay_wait">>,
                                          <<modal, escape, overlay>>)
              /\ attempts' = Append(attempts, AttemptKind(modal, escape, overlay))
              /\ pc' = IF again THEN "dismiss_loop" ELSE t.pc
              /\ exc' = t.exc
              /\ quits' = IF t.quit THEN quits + 1 ELSE quits
              /\ session' = IF t.quit THEN "closed" ELSE session
    /\ UNCHANGED <<args, fs, prompts, reads, search_query, typed, soup, calls, df,
                   output_filename, outputs, opsAfterQuit>>

\* line 514: args.search if args.search else get_search_query()
MainGetQuery ==
    /\ pc = "get_query"
    /\ IF Truthy(args.search)
       THEN /\ search_query' = args.search.v
            /\ steps' = Append(steps, Step("query_from_args", "ok"))
            /\ pc' = "search_for_query"
            /\ UNCHANGED <<prompts, reads, exc>>
       ELSE \E rd \in PromptOutcomes :
            /\ prompts' = prompts + 1
            /\ steps' = Append(steps, Step("prompt", IF rd.some THEN "ok" ELSE "EOFError"))
            /\ reads' = IF rd.some THEN Append(reads, rd.v) ELSE reads
            /\ search_query' = IF rd.some THEN rd.v ELSE search_query
            /\ pc' = IF rd.some THEN "search_for_query" ELSE "finally"
            /\ exc' = IF rd.some THEN "none" ELSE "EOFError"
    /\ UNCHANGED <<args, fs, session, quits, typed, attempts, soup, calls, df,
                   output_filename, outputs, opsAfterQuit>>

\* line 515: search_for_query (438-453) and type_search (236-252).  On a
\* session that was quit, find_element cannot reach the driver and raises.
SearchForQuery ==
    /\ pc = "search_for_query"
    /\ \E rd \in PromptOutcomes,
          find \in {"ok", "NoSuchElementException"},
          perform \in {"ok", "WebDriverException"} :
          LET ask   == needs_second_prompt(search_query)
              eof   == ask /\ ~rd.some
              query == IF ask THEN rd.v ELSE search_query
              gone  == session # "open"
              outs  == IF gone THEN <<"InvalidSessionIdException">> ELSE <<find, perform>>
              r     == IF eof THEN "EOFError" ELSE FirstRaised(outs)
          IN  /\ prompts' = IF ask THEN prompts + 1 ELSE prompts
              /\ reads' = IF ask /\ rd.some THEN Append(reads, rd.v) ELSE reads
              /\ steps' = steps
                     \o (IF ask THEN <<Step("prompt", IF eof THEN "EOFError" ELSE "ok")>>
                         ELSE <<>>)
                     \o (IF eof THEN <<>>
                         ELSE Issued(<<"find_element", "perform_search">>, outs))
              /\ opsAfterQuit' = IF gone /\ ~eof THEN opsAfterQuit + 1 ELSE opsAfterQuit
              /\ typed' = IF r = "ok" THEN Some(query) ELSE typed
              /\ pc' = IF r = "ok" THEN "wait_for_page_load" ELSE "finally"
              /\ exc' = IF r = "ok" THEN "none" ELSE r
    /\ UNCHANGED <<args, fs, session, quits, search_query, attempts, soup, calls, df,
                   output_filename, outputs>>

\* line 517: wait_for_page_load -> wait_until_class_count_exceeds (255-277)
WaitForPageLoad ==
    /\ pc = "wait_for_page_load"
    /\ \E wait \in {"ok", Timeout, "WebDriverException"} :
          LET r == wait_until_class_count_exceeds(wait)
          IN  /\ steps' = Append(steps, Step("results_wait", wait))
              /\ pc' = IF r = "ok" THEN "get_page_soup" ELSE "finally"
              /\ exc' = IF r = "ok" THEN "none" ELSE r
    /\ UNCHANGED <<args, fs, session, quits, prompts, reads, search_query, typed,
                   attempts, soup, calls, df, output_filename, outputs, opsAfterQuit>>

\* line 519: get_page_soup (471-483) parses whatever the page holds now
GetPageSoup ==
    /\ pc = "get_page_soup"
    /\ \E page \in SamplePages, out \in {"ok", "WebDriverException"} :
          /\ steps' = Append(steps, Step("page_source", out))
          /\ soup' = IF out = "ok" THEN page ELSE soup
          /\ pc' = IF out = "ok" THEN "extract" ELSE "finally"
          /\ exc' = IF out = "ok" THEN "none" ELSE out
    /\ UNCHANGED <<args, fs, session, quits, prompts, reads, search_query, typed,
                   attempts, calls, df, output_filename, outputs, opsAfterQuit>>

\* lines 521-530: the six extractors and extract_data_to_dataframe (486-501)
ExtractData ==
    /\ pc = "extract"
    /\ LET r == extract_data_to_dataframe(soup)
       IN  /\ steps' = Append(steps, Step("extract", IF r.err = "none" THEN "ok" ELSE r.err))
           /\ calls' = r.calls
           /\ df' = IF r.err = "none" THEN r.df ELSE df
           /\ pc' = IF r.err = "none" THEN "generate_filename" ELSE "finally"
           /\ exc' = r.err
    /\ UNCHANGED <<args, fs, session, quits, prompts, reads, search_query, typed,
                   attempts, soup, output_filename, outputs, opsAfterQuit>>

\* lines 532-534: generate_unique_filename (111-133) on the bare base name
GenerateFilename ==
    /\ pc = "generate_filename"
    /\ output_filename' = generate_unique_filename(output_base(args, search_query), fs)
    /\ steps' = Append(steps, Step("generate_filename", "ok"))
    /\ pc' = "save"
    /\ UNCHANGED <<args, fs, session, quits, prompts, reads, search_query, typed,
                   attempts, soup, calls, df, exc, outputs, opsAfterQuit>>

\* line 536: save_output_to_file (159-178) and the writers (136-156), which
\* append the extension, open the file for writing -- creating or truncating
\* it -- and then write.  The open may fail (no file appears) and so may the
\* write (the file is there, created or truncated, and OSError propagates).
SaveOutput ==
    /\ pc = "save"
    /\ \E open \in {"ok", "OSError"}, write \in {"ok", "OSError"} :
          LET fmt    == save_output_to_file(args)
              name   == output_filename \o FormatExt(fmt)
              opened == fmt # "print" /\ open = "ok"
              out    == IF fmt = "print" THEN "ok" ELSE FirstRaised(<<open, write>>)
          IN  /\ steps' = Append(steps, Step("save", out))
              /\ outputs' = Append(outputs,
                                   [action |-> fmt, file |-> name,
                                    existed |-> fmt # "print" /\ path_exists(name, fs),
                                    opened |-> opened,
                                    rows |-> IF out = "ok" THEN to_records(df) ELSE <<>>])
              /\ fs' = IF opened THEN fs \cup {name} ELSE fs
              /\ exc' = IF out = "ok" THEN "none" ELSE out
              /\ pc' = "finally"
    /\ UNCHANGED <<args, session, quits, prompts, reads, search_query, typed,
                   attempts, soup, calls, df, output_filename, opsAfterQuit>>

\* lines 538-539: finally: driver.quit(), then the run ends (with exc, if any)
MainFinally ==
    /\ pc = "finally"
    /\ quits' = quits + 1
    /\ session' = "closed"
    /\ pc' = "done"
    /\ UNCHANGED <<args, fs, steps, prompts, reads, search_query, typed, attempts,
                   soup, calls, df, output_filename, outputs, exc, opsAfterQuit>>

-----------------------------------------------------------------------------
(* The whole run, from the parsed command line. *)

Flags == [json : BOOLEAN, csv : BOOLEAN, yaml : BOOLEAN]
Args(search, output, f) ==
    [search |-> search, output |-> output, json |-> f.json, csv |-> f.csv, yaml |-> f.yaml]

NoPage == Page(Uniform(0), <<>>, 0)

Fresh ==
    /\ quits = 0
    /\ prompts = 0
    /\ reads = <<>>
    /\ typed = None
    /\ attempts = <<>>
    /\ calls = NoCalls
    /\ df = EmptyFrame
    /\ output_filename = <<>>
    /\ outputs = <<>>
    /\ exc = "none"
    /\ opsAfterQuit = 0

Init ==
    /\ pc = "get_chrome_driver"
    /\ args \in {Args(s, o, f) :
                    s \in {None, Some(<<>>), Some(<<"r">>), Some(<<"r", " ", "1">>)},
                    o \in {None, Some(<<"r">>)},
                    f \in Flags}
    /\ fs \in {{}, {<<"r", "_", "1">>}, {<<"r", "_", "1">> \o JsonExt}}
    /\ session = "none"
    /\ steps = <<>>
    /\ search_query = <<>>
    /\ soup = NoPage
    /\ Fresh

Next ==
    \/ GetChromeDriver
    \/ DriverGet
    \/ AcceptCookies
    \/ FocusSearchInput
    \/ DismissAttempt
    \/ MainGetQuery
    \/ SearchForQuery
    \/ WaitForPageLoad
    \/ GetPageSoup
    \/ ExtractData
    \/ GenerateFilename
    \/ SaveOutput
    \/ MainFinally

Spec == Init /\ [][Next]_vars

-----------------------------------------------------------------------------
(* The extractor on every bounded page: the run from the parsed snapshot on. *)

\* The steps of a run that reached the snapshot without incident.
ReachedSnapshot ==
    <<Step("get_chrome_driver", "ok"), Step("driver_get", "ok"),
      Step("cookie_wait", "ok"), Step("cookie_click", "ok"),
      Step("search_wait", "ok"), Step("search_click", "ok"),
      Step("modal_wait", Timeout), Step("query_from_args", "ok"),
      Step("find_element", "ok"), Step("perform_search", "ok"),
      Step("results_wait", "ok"), Step("page_source", "ok")>>

NoFlags == [json |-> FALSE, csv |-> FALSE, yaml |-> FALSE]

InitExtract ==
    /\ pc = "extract"
    /\ args \in {Args(Some(<<"r">>), None, f) : f \in {NoFlags, [NoFlags EXCEPT !.json = TRUE]}}
    /\ fs = {}
    /\ session = "open"
    /\ steps = ReachedSnapshot
    /\ search_query = <<"r">>
    /\ soup \in Pages
    /\ quits = 0
    /\ prompts = 0
    /\ reads = <<>>
    /\ typed = Some(<<"r">>)
    /\ attempts = <<"modal_absent">>
    /\ calls = NoCalls
    /\ df = EmptyFrame
    /\ output_filename = <<>>
    /\ outputs = <<>>
    /\ exc = "none"
    /\ opsAfterQuit = 0

NextExtract ==
    \/ ExtractData
    \/ GenerateFilename
    \/ SaveOutput
    \/ MainFinally

SpecExtract == InitExtract /\ [][NextExtract]_vars

-----------------------------------------------------------------------------
(* The file naming on every bounded name and directory: the run from the
   assembled table on. *)

\* a letter, the underscore, two ASCII digits, the dot, a digit outside
\* ASCII (ARABIC-INDIC DIGIT THREE) and the newline
NameAlphabet == {"r", "_", "1", "9", ".", "U+0663", "\n"}
Names == SeqsUpTo(NameAlphabet, MaxNameLen)

\* The k-th name generate_unique_filename tries, starting from filename.
RECURSIVE Candidate(_, _)
Candidate(filename, k) ==
    IF k = 1 THEN new_filename(filename) ELSE new_filename(Candidate(filename, k - 1))

\* Files that may already exist: the first names tried, bare or with the
\* extension the chosen writer appends.
Directory(filename, fmt) ==
    {Candidate(filename, k) : k \in 1..MaxChain}
        \cup {Candidate(filename, k) \o FormatExt(fmt) : k \in 1..MaxChain}

SamplePage == Page(Uniform(2), Marker, 0)

InitFile ==
    /\ pc = "generate_filename"
    /\ args \in {Args(Some(<<"r">>), Some(o), f) :
                    o \in Names,
                    f \in {NoFlags, [NoFlags EXCEPT !.json = TRUE],
                           [NoFlags EXCEPT !.csv = TRUE, !.yaml = TRUE]}}
    /\ fs \in SUBSET Directory(output_base(args, <<"r">>), save_output_to_file(args))
    /\ session = "open"
    /\ steps = Append(ReachedSnapshot, Step("extract", "ok"))
    /\ search_query = <<"r">>
    /\ soup = SamplePage
    /\ quits = 0
    /\ prompts = 0
    /\ reads = <<>>
    /\ typed = Some(<<"r">>)
    /\ attempts = <<"modal_absent">>
    /\ calls = extract_data_to_dataframe(SamplePage).calls
    /\ df = extract_data_to_dataframe(SamplePage).df
    /\ output_filename = <<>>
    /\ outputs = <<>>
    /\ exc = "none"
    /\ opsAfterQuit = 0

NextFile ==
    \/ GenerateFilename
    \/ SaveOutput
    \/ MainFinally

SpecFile == InitFile /\ [][NextFile]_vars

-----------------------------------------------------------------------------
(* Properties. *)

HasStep(st) == \E i \in 1..Len(steps) : steps[i] = st
Did(op) == \E i \in 1..Len(steps) : steps[i].op = op
OutcomeOf(op) == steps[CHOOSE i \in 1..Len(steps) : steps[i].op = op].out

\* C1: in every run that obtained a browser session, driver.quit is invoked
\* exactly once by the time the run ends, whether it succeeded or failed.
C1_TeardownExactlyOnce ==
    (pc = "done" /\ HasStep(Step("get_chrome_driver", "ok"))) => quits = 1

\* The steps of the pipeline that follow the focusing of the search input.
LaterPipelineOps ==
    {"prompt", "find_element", "perform_search", "results_wait", "page_source",
     "extract", "generate_filename", "save"}

\* C2: once waiting for or clicking the search input has failed with
\* element-not-found, stale-element or timeout, no later pipeline step is
\* attempted and no browser operation is issued on the quit session.
C2_FatalFailureAbortsRun ==
    \A i \in 1..Len(steps) :
        (steps[i].op \in {"search_wait", "search_click"} /\ steps[i].out \in SearchBarCaught)
            => /\ \A j \in (i + 1)..Len(steps) : steps[j].op \notin LaterPipelineOps
               /\ opsAfterQuit = 0

Undisturbed == session = "open" /\ quits = 0 /\ exc = "none"

\* C3: a timeout of the cookie-banner wait, of the login-modal wait or of the
\* wait for its overlay, or of the results-count wait is swallowed: the session
\* stays open, nothing propagates, and the run stands at the next step (focus
\* of the search input, the query and its submission, the page snapshot and
\* extraction respectively).
C3_NonFatalTimeoutsContinue ==
    steps # <<>> =>
        /\ Last = Step("cookie_wait", Timeout) => (pc = "focus_search" /\ Undisturbed)
        /\ Last \in {Step("modal_wait", Timeout), Step("overlay_wait", Timeout)}
              => (pc = "get_query" /\ Undisturbed)
        /\ Last = Step("results_wait", Timeout) => (pc = "get_page_soup" /\ Undisturbed)

C3_Witness ==
    /\ steps # <<>>
    /\ Last = Step("results_wait", Timeout)
    /\ HasStep(Step("cookie_wait", Timeout))
    /\ HasStep(Step("overlay_wait", Timeout))
    /\ pc = "get_page_soup"

\* What the claim reads as the trailing number of a stem: the digits at its
\* end, with the underscore before them if there is one.
StemOf(filename) ==
    IF re_match_lazy(splitext(filename).root).matched
    THEN re_match_lazy(splitext(filename).root).g1 ELSE splitext(filename).root
FirstCount(filename) ==
    IF re_match_lazy(splitext(filename).root).matched
    THEN StrToNat(re_match_lazy(splitext(filename).root).g2) + 1 ELSE 1
Numbered(filename, k) ==
    StemOf(filename) \o <<"_">> \o NatToStr(k) \o splitext(filename).ext
FirstFree(filename, files) ==
    Numbered(filename,
             SetMin({k \in FirstCount(filename)..(FirstCount(filename) + Cardinality(files)) :
                        Numbered(filename, k) \notin files}))

\* C4: generate_unique_filename returns stem_k.ext for the first k, counting
\* from 1 (or from one more than the name's trailing number), for which no
\* such file exists, with the stem and the extension unchanged.
C4_FirstFreeNumberedName ==
    pc = "save" => output_filename = FirstFree(output_base(args, search_query), fs)

\* C5: the file a run writes did not exist when it was opened for writing.
C5_NeverOverwrites ==
    \A i \in 1..Len(outputs) : ~outputs[i].existed

\* C6: save_output_to_file performs exactly one output action: JSON if --json,
\* otherwise CSV if --csv, otherwise YAML if --yaml, otherwise the table is
\* printed and no file is written.
C6_OutputPriority ==
    /\ [](/\ Len(outputs) <= 1
          /\ Did("save") => Len(outputs) = 1
          /\ outputs # <<>> =>
                /\ args.json => outputs[1].action = "json"
                /\ (~args.json /\ args.csv) => outputs[1].action = "csv"
                /\ (~args.json /\ ~args.csv /\ args.yaml) => outputs[1].action = "yaml"
                /\ (~args.json /\ ~args.csv /\ ~args.yaml) => outputs[1].action = "print"
                /\ outputs[1].action = "json" => outputs[1].file = output_filename \o JsonExt
                /\ outputs[1].action = "csv" => outputs[1].file = output_filename \o CsvExt
                /\ outputs[1].action = "yaml" => outputs[1].file = output_filename \o YamlExt
                /\ (outputs[1].action # "print" /\ OutcomeOf("save") = "ok")
                      => outputs[1].file \in fs)
    /\ [][/\ fs' # fs => pc = "save"
          /\ args.json => fs' \subseteq fs \cup {output_filename \o JsonExt}
          /\ (~args.json /\ args.csv) => fs' \subseteq fs \cup {output_filename \o CsvExt}
          /\ (~args.json /\ ~args.csv /\ args.yaml)
                => fs' \subseteq fs \cup {output_filename \o YamlExt}
          /\ (~args.json /\ ~args.csv /\ ~args.yaml) => fs' = fs]_vars

C6_Witness ==
    /\ pc = "done"
    /\ args.json /\ args.csv
    /\ Len(outputs) = 1
    /\ outputs[1].action = "json"
    /\ outputs[1].file \in fs

\* C7 as claimed: the query typed is the one given with -s, without a prompt,
\* or else the string read by the one prompt -- also when it is empty.
C7_QueryTypedUnchanged ==
    typed.some =>
        /\ args.search.some => (typed.v = args.search.v /\ prompts = 0)
        /\ ~args.search.some => (prompts = 1 /\ reads = <<typed.v>>)

\* C7, amended: a non-empty query given with -s is typed as given, without a
\* prompt.  Without -s, or with an empty -s, the user is prompted; a non-empty
\* answer is typed and there is no second prompt; an empty answer is followed
\* by a second prompt, whose answer is typed as read, empty or not.
C7_QueryTypedAmended ==
    typed.some =>
        /\ Truthy(args.search) => (typed.v = args.search.v /\ prompts = 0)
        /\ ~Truthy(args.search) =>
              /\ reads # <<>>
              /\ reads[1] # <<>> => (prompts = 1 /\ reads = <<typed.v>>)
              /\ reads[1] = <<>> => (prompts = 2 /\ reads = <<<<>>, typed.v>>)

C7_Witness ==
    /\ typed = Some(<<>>)
    /\ prompts = 2
    /\ ~args.search.some
    /\ pc = "wait_for_page_load"

EqualCounts(page) == \A c \in ColumnSet : Len(page[c]) = Len(page["Title"])
LinksHaveHref(page) ==
    \A i \in 1..Len(page["Listing Link"]) : page["Listing Link"][i].href.some
Longest(page) == SetMax({Len(page[c]) : c \in ColumnSet})

\* v is text up to its first marker: v holds no marker, and text is v, or v
\* followed by the marker and anything.
IsAgeOf(v, text) ==
    /\ Occurrences(v, Marker) = {}
    /\ \/ v = text
       \/ /\ Len(text) >= Len(v) + Len(Marker)
          /\ SubSeq(text, 1, Len(v) + Len(Marker)) = v \o Marker

\* The cell the claim expects for a matched node.
CellOf(col, node, cell) ==
    /\ cell.some
    /\ col = "Listing Link" => (node.href.some /\ cell.v = Origin \o node.href.v)
    /\ col = "Posted Time" => IsAgeOf(cell.v, node.text)
    /\ col \notin {"Listing Link", "Posted Time"} => cell.v = node.text

RowsInOrder(n) ==
    /\ OutcomeOf("extract") = "ok"
    /\ df.n = n
    /\ DOMAIN df.cols = ColumnSet
    /\ Len(to_records(df)) = n
    /\ \A c \in ColumnSet :
          /\ Len(df.cols[c]) = n
          /\ \A i \in 1..n : CellOf(c, soup[c][i], to_records(df)[i][c])
    /\ \A c \in ColumnSet : calls[c] = 1

\* C8 as claimed: when every selector matches n nodes, the table has n records
\* of six columns, record i built from the i-th match of each selector, each
\* extractor called once.
C8_EqualCountsGiveRows ==
    (Did("extract") /\ EqualCounts(soup)) => RowsInOrder(Len(soup["Title"]))

\* C8, amended: the same, provided every matched link node has an href.
C8_EqualCountsGiveRowsAmended ==
    (Did("extract") /\ EqualCounts(soup) /\ LinksHaveHref(soup))
        => RowsInOrder(Len(soup["Title"]))

C8_Witness ==
    /\ Did("extract")
    /\ EqualCounts(soup)
    /\ LinksHaveHref(soup)
    /\ Len(soup["Title"]) = 3
    /\ soup["Posted Time"][1].text = <<"1", "d">> \o Marker \o <<"x">> \o Marker
    /\ df.n = 3
    /\ pc = "done"
    /\ Len(outputs) = 1

\* C9 as claimed: with differing match counts assembly still returns a table,
\* as long as the longest column, shorter columns NaN at their tail, and the
\* run reaches the output writer.
C9_RaggedColumnsPadded ==
    (Did("extract") /\ ~EqualCounts(soup)) =>
        /\ OutcomeOf("extract") = "ok"
        /\ df.n = Longest(soup)
        /\ \A c \in ColumnSet : \A i \in 1..Longest(soup) :
              /\ Len(df.cols[c]) = Longest(soup)
              /\ i <= Len(soup[c]) => CellOf(c, soup[c][i], df.cols[c][i])
              /\ i > Len(soup[c]) => df.cols[c][i] = NaN
        /\ pc = "done" => Len(outputs) = 1

\* The first k columns empty, the others all of one length n > 0.
EmptyThenEqual(page, upto) ==
    \E k \in 0..upto : \E n \in 0..Longest(page) :
        /\ \A j \in 1..k : Len(page[ColumnNames[j]]) = 0
        /\ \A j \in (k + 1)..upto : Len(page[ColumnNames[j]]) = n

\* C9, amended: with differing match counts assembly returns a table only when
\* the short columns are empty ones ahead of the first non-empty column, all
\* later columns are equally long and every link has an href; the table is
\* then as long as the longest column and the empty columns are all NaN.
\* Otherwise assembly raises (ValueError for the lengths, TypeError for a link
\* without href, whichever the loop meets first), no table is returned, the
\* output writer is not reached and the run ends in main's finally.
C9_RaggedColumnsAmended ==
    (Did("extract") /\ ~EqualCounts(soup)) =>
        IF EmptyThenEqual(soup, 6) /\ LinksHaveHref(soup)
        THEN /\ OutcomeOf("extract") = "ok"
             /\ df.n = Longest(soup)
             /\ \A c \in ColumnSet : \A i \in 1..Longest(soup) :
                   /\ Len(df.cols[c]) = Longest(soup)
                   /\ Len(soup[c]) # 0 => CellOf(c, soup[c][i], df.cols[c][i])
                   /\ Len(soup[c]) = 0 => df.cols[c][i] = NaN
             /\ pc = "done" => Len(outputs) = 1
        ELSE /\ OutcomeOf("extract") =
                    (IF EmptyThenEqual(soup, 5) /\ ~LinksHaveHref(soup)
                     THEN "TypeError" ELSE "ValueError")
             /\ exc = OutcomeOf("extract")
             /\ df = EmptyFrame
             /\ outputs = <<>>
             /\ ~Did("save")
             /\ pc \in {"finally", "done"}

C9_Witness ==
    /\ Did("extract")
    /\ Len(soup["Price"]) = 2
    /\ \A c \in ColumnSet \ {"Price"} : Len(soup[c]) = 3
    /\ OutcomeOf("extract") = "ValueError"
    /\ outputs = <<>>
    /\ quits = 1
    /\ pc = "done"

\* C10: once the search input is focused, dismissal is attempted at least
\* once and at most three times; the loop ends with the first attempt that
\* finds no modal; and an attempt whose overlay did not go away is followed
\* by another while fewer than three were made.
C10_BoundedRetry ==
    /\ Len(attempts) <= DismissAttempts
    /\ (HasStep(Step("search_click", "ok")) /\ pc # "dismiss_loop") =>
          /\ Len(attempts) >= 1
          /\ \A i \in 1..Len(attempts) :
                /\ attempts[i] = "modal_absent" => i = Len(attempts)
                /\ (attempts[i] = "overlay_timeout" /\ i < DismissAttempts)
                      => Len(attempts) > i

====
